---------------------------- MODULE Spec2Model ----------------------------
(***************************************************************************)
(* Model of script.py: the one-shot report generator that reads the        *)
(* 'position', 'points' and 'Profiles' worksheets, lays out rectangles,    *)
(* wrapped labels and radial profile markers, and writes docs/index.html   *)
(* and docs/.nojekyll.                                                     *)
(*                                                                         *)
(* Text is a sequence of one-character strings.  Python values that the    *)
(* script juggles (None, int, float, NaN, tuple) are records of one shape, *)
(* [k, n, items], so that any two of them can be compared.                 *)
(***************************************************************************)
EXTENDS Integers, Sequences, FiniteSets, TLC

(***************************************************************************)
(* Bounds of the model.                                                    *)
(***************************************************************************)
\* longest cell text handed to parse_tuple_string in SpecParse
MaxTupleLen == 5
\* most runs (of letters or of blanks) a label is built from in SpecWrap
MaxRuns == 3
\* most profile definitions in SpecMarkers
MaxProfiles == 3
\* most rows of the 'position' worksheet in Spec
MaxRows == 2
\* most rows of the 'points' worksheet in Spec
MaxPoints == 2
\* most rows of the 'Profiles' worksheet in Spec
MaxProfileRows == 2

(***************************************************************************)
(* Python values.                                                          *)
(***************************************************************************)
None == [k |-> "none", n |-> 0, items |-> <<>>]
NaN == [k |-> "nan", n |-> 0, items |-> <<>>]
IntV(i) == [k |-> "int", n |-> i, items |-> <<>>]
FloatV(i) == [k |-> "float", n |-> i, items |-> <<>>]
TupV(xs) == [k |-> "tuple", n |-> 0, items |-> xs]

\* bool(v): None, 0, 0.0 and () are false; NaN and everything else is true
Truthy(v) ==
    CASE v.k = "none" -> FALSE
      [] v.k = "int" -> v.n # 0
      [] v.k = "float" -> v.n # 0
      [] v.k = "nan" -> TRUE
      [] OTHER -> Len(v.items) > 0

SeqsUpTo(S, n) == UNION {[1..k -> S] : k \in 0..n}

\* F applied to the value of v, which is evaluated once
Let1(v, F(_)) == CHOOSE y \in {F(x) : x \in {v}} : TRUE

Digits == {"0", "1", "2", "3", "4", "5", "6", "7", "8", "9"}

DigitVal(c) ==
    CASE c = "0" -> 0 [] c = "1" -> 1 [] c = "2" -> 2 [] c = "3" -> 3
      [] c = "4" -> 4 [] c = "5" -> 5 [] c = "6" -> 6 [] c = "7" -> 7
      [] c = "8" -> 8 [] OTHER -> 9

(***************************************************************************)
(* ast.literal_eval on a text over the characters ( ) , digits and         *)
(* letters.  A text with a letter is a Name (ValueError) or a syntax       *)
(* error; one atom directly after another is a call (ValueError) or a      *)
(* syntax error; both are caught by parse_tuple_string.  Digits are        *)
(* non-zero in the model's texts, so no literal has a leading zero.        *)
(***************************************************************************)
ParseFail == [ok |-> FALSE, v |-> None, comma |-> FALSE, next |-> 0]

RECURSIVE ScanDigits(_, _)
\* the index after the run of digits that starts at i
ScanDigits(s, i) ==
    IF i <= Len(s) /\ s[i] \in Digits THEN ScanDigits(s, i + 1) ELSE i

RECURSIVE DecimalOf(_, _, _)
DecimalOf(s, i, j) ==
    IF j < i THEN 0 ELSE 10 * DecimalOf(s, i, j - 1) + DigitVal(s[j])

RECURSIVE ParseAtom(_, _), ParseExprList(_, _, _, _)
\* atom: NUMBER | '(' ')' | '(' expressions ')'
ParseAtom(s, i) ==
    IF i > Len(s) THEN ParseFail
    ELSE IF s[i] \in Digits THEN
        Let1(ScanDigits(s, i), LAMBDA j :
            [ok |-> TRUE, v |-> IntV(DecimalOf(s, i, j - 1)),
             comma |-> FALSE, next |-> j])
    ELSE IF s[i] = "(" THEN
        IF i + 1 <= Len(s) /\ s[i + 1] = ")"
        THEN [ok |-> TRUE, v |-> TupV(<<>>), comma |-> FALSE, next |-> i + 2]
        ELSE Let1(ParseExprList(s, i + 1, <<>>, FALSE), LAMBDA r :
                IF r.ok /\ r.next <= Len(s) /\ s[r.next] = ")"
                THEN [ok |-> TRUE, v |-> r.v, comma |-> FALSE,
                      next |-> r.next + 1]
                ELSE ParseFail)
    ELSE ParseFail

\* expressions: atom (',' atom)* [','] ; a comma anywhere makes a tuple
ParseExprList(s, i, acc, comma) ==
    Let1(ParseAtom(s, i), LAMBDA a :
        IF ~a.ok THEN ParseFail
        ELSE IF a.next <= Len(s) /\ s[a.next] = "," THEN
            IF a.next + 1 <= Len(s) /\ s[a.next + 1] \in Digits \cup {"("}
            THEN ParseExprList(s, a.next + 1, Append(acc, a.v), TRUE)
            ELSE [ok |-> TRUE, v |-> TupV(Append(acc, a.v)), comma |-> TRUE,
                  next |-> a.next + 1]
        ELSE [ok |-> TRUE,
              v |-> IF comma THEN TupV(Append(acc, a.v)) ELSE a.v,
              comma |-> comma, next |-> a.next])

literal_eval(s) ==
    Let1(ParseExprList(s, 1, <<>>, FALSE), LAMBDA r :
        IF r.ok /\ r.next = Len(s) + 1
        THEN [raised |-> FALSE, v |-> r.v]
        ELSE [raised |-> TRUE, v |-> None])

\* lines 13-17: the literal's value, whatever it is; None on ValueError or
\* SyntaxError
parse_tuple_string(tuple_string) ==
    Let1(literal_eval(tuple_string), LAMBDA r :
        IF r.raised THEN None ELSE r.v)

(***************************************************************************)
(* int(text): an optional sign and one or more digits (leading zeros       *)
(* allowed); anything else raises ValueError.                              *)
(***************************************************************************)
IntOfText(s) ==
    LET signed == Len(s) >= 1 /\ s[1] \in {"-", "+"}
        first == IF signed THEN 2 ELSE 1
        ok == first <= Len(s) /\ ScanDigits(s, first) = Len(s) + 1
        mag == DecimalOf(s, first, Len(s))
    IN  [raised |-> ~ok,
         v |-> IF ~ok THEN 0
               ELSE IF signed /\ s[1] = "-" THEN 0 - mag ELSE mag]

\* lines 20-24
parse_font_size(font_size) ==
    Let1(IntOfText(font_size), LAMBDA r :
        IF r.raised THEN None ELSE IntV(r.v))

(***************************************************************************)
(* textwrap.fill(label, width) with TextWrapper's defaults                 *)
(* (replace_whitespace, drop_whitespace and break_long_words all True), on *)
(* labels without tabs, hyphens or dashes: the chunks are the maximal runs *)
(* of blanks and of non-blanks.                                            *)
(***************************************************************************)
Whitespace == {" ", "\t", "\n"}

\* TextWrapper._munge_whitespace: every whitespace character becomes a blank
munge_whitespace(text) ==
    [i \in 1..Len(text) |-> IF text[i] \in Whitespace THEN " " ELSE text[i]]

\* chunk.strip() == ''
IsBlank(chunk) == \A i \in 1..Len(chunk) : chunk[i] \in Whitespace

RECURSIVE RunEnd(_, _)
\* the index after the run (of blanks, or of non-blanks) that starts at i
RunEnd(text, i) ==
    IF i < Len(text) /\ ((text[i + 1] = " ") <=> (text[i] = " "))
    THEN RunEnd(text, i + 1) ELSE i + 1

RECURSIVE split_chunks(_, _)
\* TextWrapper._split: the chunks of text from index i on
split_chunks(text, i) ==
    IF i > Len(text) THEN <<>>
    ELSE Let1(RunEnd(text, i), LAMBDA j :
            <<SubSeq(text, i, j - 1)>> \o split_chunks(text, j))

RECURSIVE FlattenSeq(_)
\* ''.join(chunks)
FlattenSeq(ss) == IF ss = <<>> THEN <<>> ELSE Head(ss) \o FlattenSeq(Tail(ss))

RECURSIVE FillLine(_, _, _, _)
\* the inner loop of _wrap_chunks: take chunks while they fit in width
FillLine(chunks, cur_line, cur_len, width) ==
    IF chunks # <<>> /\ cur_len + Len(Head(chunks)) <= width
    THEN FillLine(Tail(chunks), Append(cur_line, Head(chunks)),
                  cur_len + Len(Head(chunks)), width)
    ELSE [cur_line |-> cur_line, cur_len |-> cur_len, chunks |-> chunks]

\* TextWrapper._handle_long_word with break_long_words = True: the head of
\* the chunk fills what is left of the line, the rest stays in the queue
handle_long_word_break(st, width) ==
    LET space_left == IF width < 1 THEN 1 ELSE width - st.cur_len
        chunk == Head(st.chunks)
    IN  [cur_line |-> Append(st.cur_line, SubSeq(chunk, 1, space_left)),
         cur_len |-> st.cur_len + space_left,
         chunks |-> <<SubSeq(chunk, space_left + 1, Len(chunk))>>
                        \o Tail(st.chunks)]

\* TextWrapper._handle_long_word with break_long_words = False: the word is
\* never cut; it goes, whole, on a line of its own
handle_long_word_keep(st, width) ==
    IF st.cur_line = <<>>
    THEN [cur_line |-> <<Head(st.chunks)>>,
          cur_len |-> Len(Head(st.chunks)),
          chunks |-> Tail(st.chunks)]
    ELSE st

\* line 34: textwrap.fill is called with its defaults, break_long_words = True
handle_long_word(st, width) == handle_long_word_break(st, width)

\* one turn of the outer loop of _wrap_chunks: the line it makes (empty if
\* it makes none) and the chunks it leaves
wrap_line(chunks, started, width) ==
    Let1(FillLine(IF IsBlank(Head(chunks)) /\ started
                  THEN Tail(chunks) ELSE chunks, <<>>, 0, width),
         LAMBDA filled :
    Let1(IF filled.chunks # <<>> /\ Len(Head(filled.chunks)) > width
         THEN handle_long_word(filled, width) ELSE filled,
         LAMBDA broken :
    Let1(broken.cur_line, LAMBDA cur :
        [line |-> FlattenSeq(IF cur # <<>> /\ IsBlank(cur[Len(cur)])
                             THEN SubSeq(cur, 1, Len(cur) - 1) ELSE cur),
         chunks |-> broken.chunks])))

RECURSIVE wrap_chunks(_, _, _)
\* TextWrapper._wrap_chunks; a line left empty is not appended (a line is
\* empty only when no chunk, or only blank chunks, went into it)
wrap_chunks(chunks, lines, width) ==
    IF chunks = <<>> THEN lines
    ELSE Let1(wrap_line(chunks, lines # <<>>, width), LAMBDA st :
            wrap_chunks(st.chunks,
                        IF st.line # <<>> THEN Append(lines, st.line)
                        ELSE lines,
                        width))

\* TextWrapper.wrap
wrap(text, width) ==
    Let1(split_chunks(munge_whitespace(text), 1), LAMBDA chunks :
        wrap_chunks(chunks, <<>>, width))

RECURSIVE JoinLines(_)
\* "\n".join(lines)
JoinLines(lines) ==
    IF lines = <<>> THEN <<>>
    ELSE IF Len(lines) = 1 THEN lines[1]
    ELSE lines[1] \o <<"\n">> \o JoinLines(Tail(lines))

fill(text, width) == Let1(wrap(text, width), LAMBDA lines : JoinLines(lines))

RECURSIVE NextNewline(_, _)
\* the index of the first newline at or after i, Len(text) + 1 if none
NextNewline(text, i) ==
    IF i <= Len(text) /\ text[i] # "\n" THEN NextNewline(text, i + 1) ELSE i

RECURSIVE SplitFrom(_, _)
SplitFrom(text, i) ==
    LET j == NextNewline(text, i)
    IN  IF j > Len(text) THEN <<SubSeq(text, i, Len(text))>>
        ELSE <<SubSeq(text, i, j - 1)>> \o SplitFrom(text, j + 1)

\* str.split('\n'): the pieces between newlines ([''] for the empty text)
split_newline(text) == SplitFrom(text, 1)

(***************************************************************************)
(* Arithmetic on Python numbers.  Every float the rectangle code produces  *)
(* is integer-valued or NaN: text_width // 2 is floor(maxlen*font*0.6/2),  *)
(* computed here exactly as floor(maxlen*font*6/20), which agrees with the *)
(* IEEE result for the font sizes of the model (4, -4, 40).                *)
(***************************************************************************)
NumAdd(a, b) ==
    IF a.k = "nan" \/ b.k = "nan" THEN NaN
    ELSE IF a.k = "float" \/ b.k = "float" THEN FloatV(a.n + b.n)
    ELSE IntV(a.n + b.n)

NumSub(a, b) ==
    IF a.k = "nan" \/ b.k = "nan" THEN NaN
    ELSE IF a.k = "float" \/ b.k = "float" THEN FloatV(a.n - b.n)
    ELSE IntV(a.n - b.n)

RECURSIVE MaxLineLen(_)
MaxLineLen(lines) ==
    IF lines = <<>> THEN 0
    ELSE LET m == MaxLineLen(Tail(lines))
         IN  IF Len(Head(lines)) > m THEN Len(Head(lines)) ELSE m

max_line_length == 20

\* lines 27-44
get_centered_position(x0, y0, x1, y1, label, font_size) ==
    Let1(fill(label, max_line_length), LAMBDA wrapped_text :
    Let1(split_newline(wrapped_text), LAMBDA lines :
        [text_x |->
            NumSub(IntV((x0 + x1) \div 2),
                   IF font_size.k = "nan" THEN NaN
                   ELSE FloatV((MaxLineLen(lines) * font_size.n * 6) \div 20)),
         text_y |->
            NumSub(IntV((y0 + y1) \div 2),
                   IF font_size.k = "nan" THEN NaN
                   ELSE IF font_size.k = "float"
                        THEN FloatV((font_size.n * Len(lines)) \div 2)
                        ELSE IntV((font_size.n * Len(lines)) \div 2)),
         wrapped_text |-> wrapped_text]))

(***************************************************************************)
(* generate_offsets, in thousandths of a pixel: 1000*cos and 1000*sin of   *)
(* 2*pi*i/n, rounded, for the n the model reaches.                         *)
(***************************************************************************)
CosMilli(i, n) ==
    CASE n = 1 -> 1000
      [] n = 2 -> <<1000, -1000>>[i + 1]
      [] n = 3 -> <<1000, -500, -500>>[i + 1]
      [] n = 4 -> <<1000, 0, -1000, 0>>[i + 1]
      [] n = 5 -> <<1000, 309, -809, -809, 309>>[i + 1]

SinMilli(i, n) ==
    CASE n = 1 -> 0
      [] n = 2 -> <<0, 0>>[i + 1]
      [] n = 3 -> <<0, 866, -866>>[i + 1]
      [] n = 4 -> <<0, 1000, 0, -1000>>[i + 1]
      [] n = 5 -> <<0, 951, 588, -588, -951>>[i + 1]

\* lines 47-54: offsets[i+1] is the offset of index i
generate_offsets(num_points, radius) ==
    [j \in 1..num_points |->
        <<radius * 2 * CosMilli(j - 1, num_points),
          radius * 2 * SinMilli(j - 1, num_points)>>]

(***************************************************************************)
(* pandas: Series.apply(func) infers the dtype of the results.  A column   *)
(* of results that holds a tuple stays an object column; a column of       *)
(* numbers and None becomes float64, its None entries NaN; a column of     *)
(* None only, or of ints only, keeps its values.                           *)
(***************************************************************************)
SeriesApply(results) ==
    LET idx == 1..Len(results)
        has_object == \E i \in idx : results[i].k = "tuple"
        has_null == \E i \in idx : results[i].k = "none"
        has_int == \E i \in idx : results[i].k = "int"
    IN  IF ~has_object /\ has_null /\ has_int
        THEN [i \in idx |-> IF results[i].k = "none" THEN NaN
                            ELSE FloatV(results[i].n)]
        ELSE results

\* lines 76-82: the DataFrame of the 'position' records.  The frame of an
\* empty record list has no columns, and df[col] raises KeyError.  Corner
\* Position 2 and 4 are parsed as well and never read.
normalize_position(position_data) ==
    IF position_data = <<>>
    THEN [raised |-> TRUE, exc |-> "KeyError", df |-> <<>>]
    ELSE
      Let1(SeriesApply([i \in 1..Len(position_data) |->
               parse_tuple_string(position_data[i].corner1)]), LAMBDA c1 :
      Let1(SeriesApply([i \in 1..Len(position_data) |->
               parse_tuple_string(position_data[i].corner3)]), LAMBDA c3 :
      Let1(SeriesApply([i \in 1..Len(position_data) |->
               parse_font_size(position_data[i].font_size)]), LAMBDA fs :
          [raised |-> FALSE, exc |-> "",
           df |-> [i \in 1..Len(position_data) |->
                     [Label |-> position_data[i].Label,
                      corner1 |-> c1[i], corner3 |-> c3[i],
                      font_size |-> fs[i]]]])))

Min(a, b) == IF a <= b THEN a ELSE b
Max(a, b) == IF a >= b THEN a ELSE b

default_font_size == 40

\* lines 115-117
effective_font_size(font_size) ==
    IF ~Truthy(font_size) THEN IntV(default_font_size) ELSE font_size

\* corner[0] and corner[1] can be read and are ints: anything else raises
\* (TypeError on an int, float or NaN corner and on a nested tuple by line
\* 127 at the latest, IndexError on a 1-tuple) before anything is appended
CornerUsable(corner) ==
    /\ corner.k = "tuple"
    /\ Len(corner.items) >= 2
    /\ corner.items[1].k = "int"
    /\ corner.items[2].k = "int"

\* the box with corner 1 taken as the top left and corner 3 as the bottom
\* right, whichever way round they are
bounding_box_as_given(corner1, corner3) ==
    [x0 |-> corner1.items[1].n, y0 |-> corner1.items[2].n,
     x1 |-> corner3.items[1].n, y1 |-> corner3.items[2].n]

\* lines 121-124
bounding_box(corner1, corner3) ==
    [x0 |-> Min(corner1.items[1].n, corner3.items[1].n),
     y0 |-> Min(corner1.items[2].n, corner3.items[2].n),
     x1 |-> Max(corner1.items[1].n, corner3.items[1].n),
     y1 |-> Max(corner1.items[2].n, corner3.items[2].n)]

\* lines 138-144: one tspan per line of the wrapped text, inserted as it is
label_tspans(wrapped_text, text_x, font_size) ==
    Let1(split_newline(wrapped_text), LAMBDA lines :
        [i \in 1..Len(lines) |->
            [x |-> text_x,
             dy |-> IF i = 1 THEN IntV(0) ELSE font_size,
             body |-> lines[i]]])

\* lines 126-145: the rect element and the text element of a box
rect_elements(b, label, font_size) ==
    Let1(get_centered_position(b.x0, b.y0, b.x1, b.y1, label, font_size),
         LAMBDA pos :
        << [tag |-> "rect", x |-> b.x0, y |-> b.y0,
            width |-> b.x1 - b.x0, height |-> b.y1 - b.y0],
           [tag |-> "text", x |-> pos.text_x,
            y |-> NumAdd(pos.text_y, font_size),
            font_size |-> font_size,
            tspans |-> label_tspans(pos.wrapped_text, pos.text_x,
                                    font_size)] >>)

\* lines 110-145: the body of the rectangle loop for one row
rect_row(row) ==
    IF ~(Truthy(row.corner1) /\ Truthy(row.corner3))
    THEN [raised |-> FALSE, exc |-> "", elems |-> <<>>]
    ELSE IF ~(CornerUsable(row.corner1) /\ CornerUsable(row.corner3))
    THEN [raised |-> TRUE,
          exc |-> IF \E c \in {row.corner1, row.corner3} :
                        c.k = "tuple" /\ Len(c.items) < 2
                  THEN "IndexError" ELSE "TypeError",
          elems |-> <<>>]
    ELSE [raised |-> FALSE, exc |-> "",
          elems |-> rect_elements(bounding_box(row.corner1, row.corner3),
                                  row.Label,
                                  effective_font_size(row.font_size))]

RECURSIVE rect_loop(_, _, _)
\* lines 109-145: the rows from index i on; the first exception ends the run
rect_loop(df, i, elems) ==
    IF i > Len(df) THEN [raised |-> FALSE, exc |-> "", elems |-> elems]
    ELSE Let1(rect_row(df[i]), LAMBDA r :
            IF r.raised THEN [raised |-> TRUE, exc |-> r.exc, elems |-> <<>>]
            ELSE rect_loop(df, i + 1, elems \o r.elems))

(***************************************************************************)
(* Profiles: lines 166-190.                                                *)
(***************************************************************************)
HexDigits == Digits \cup {"a", "b", "c", "d", "e", "f"}

HexVal(c) ==
    CASE c = "a" -> 10 [] c = "b" -> 11 [] c = "c" -> 12 [] c = "d" -> 13
      [] c = "e" -> 14 [] c = "f" -> 15 [] OTHER -> DigitVal(c)

RECURSIVE StripHash(_)
\* str.strip('#')
StripHash(text) ==
    IF text # <<>> /\ Head(text) = "#" THEN StripHash(Tail(text))
    ELSE IF text # <<>> /\ text[Len(text)] = "#"
         THEN StripHash(SubSeq(text, 1, Len(text) - 1))
    ELSE text

\* int(text[i:i+2], 16) on at most two characters; -1 stands for ValueError
HexPair(text, i) ==
    LET piece == SubSeq(text, i + 1, Min(i + 2, Len(text)))
    IN  IF piece = <<>> \/ \E j \in 1..Len(piece) : piece[j] \notin HexDigits
        THEN -1
        ELSE IF Len(piece) = 1 THEN HexVal(piece[1])
        ELSE 16 * HexVal(piece[1]) + HexVal(piece[2])

\* line 174-175
color_rgb(color_hex) ==
    LET t == StripHash(color_hex)
        rgb == <<HexPair(t, 0), HexPair(t, 2), HexPair(t, 4)>>
    IN  [raised |-> \E j \in 1..3 : rgb[j] = -1, rgb |-> rgb]

NoProfiles == [list |-> <<>>, mapping |-> <<>>, offsets |-> <<>>]

RECURSIVE LastIndexOf(_, _, _)
\* the last index of x in list at or before i (0 if none)
LastIndexOf(list, x, i) ==
    IF i = 0 THEN 0 ELSE IF list[i] = x THEN i ELSE LastIndexOf(list, x, i - 1)

circle_radius == 10

\* lines 167-190: profiles_list in row order; profiles_mapping and offsets
\* are dicts, so a later row (or zip pair) of the same Profile replaces an
\* earlier one
build_profiles(profiles_data) ==
    LET idx == 1..Len(profiles_data)
        list == [i \in idx |-> profiles_data[i].Profile]
        ids == {list[i] : i \in idx}
        offsets_list == generate_offsets(Len(list), circle_radius)
    IN  IF \E i \in idx : color_rgb(profiles_data[i].Color).raised
        THEN [raised |-> TRUE, exc |-> "ValueError", profiles |-> NoProfiles]
        ELSE [raised |-> FALSE, exc |-> "",
              profiles |->
                [list |-> list,
                 mapping |-> [p \in ids |->
                    LET r == profiles_data[LastIndexOf(list, p, Len(list))]
                    IN  [color |-> color_rgb(r.Color).rgb, name |-> r.Name]],
                 offsets |-> [p \in ids |->
                    offsets_list[LastIndexOf(list, p, Len(list))]]]]

(***************************************************************************)
(* Markers: lines 193-222.  Coordinates are in thousandths of a pixel.     *)
(***************************************************************************)
\* lines 150-157; an empty record list has no 'Position' column: KeyError
normalize_points(points_data) ==
    IF points_data = <<>>
    THEN [raised |-> TRUE, exc |-> "KeyError", df |-> <<>>]
    ELSE
      Let1(SeriesApply([i \in 1..Len(points_data) |->
               parse_tuple_string(points_data[i].Position)]), LAMBDA pos :
          [raised |-> FALSE, exc |-> "",
           df |-> [i \in 1..Len(points_data) |->
                     [Position |-> pos[i], flags |-> points_data[i].flags]]])

\* row.get(profile, 0)
row_get(row, profile) ==
    IF profile \in DOMAIN row.flags THEN row.flags[profile] ELSE 0

\* any value that is not zero counts
is_active_truthy(value) == value # 0

\* line 200
is_active(value) == value = 1

label_font_size == 20

\* lines 201-222: the marker of one active profile at (x, y)
marker_elements(x, y, profile, profiles) ==
    LET info == profiles.mapping[profile]
        off == IF profile \in DOMAIN profiles.offsets
               THEN profiles.offsets[profile] ELSE <<0, 0>>
        x_adj == 1000 * x + off[1]
        y_adj == 1000 * y + off[2]
    IN  << [tag |-> "circle", cx |-> x_adj, cy |-> y_adj,
            r |-> circle_radius, fill |-> info.color, stroke |-> info.color],
           [tag |-> "text", x |-> x_adj + 1000 * (circle_radius + 5),
            y |-> y_adj + 500 * label_font_size,
            font_size |-> label_font_size, body |-> info.name] >>

RECURSIVE profile_loop(_, _, _, _)
\* lines 198-222 for the profiles from index j on
profile_loop(row, profiles, j, elems) ==
    IF j > Len(profiles.list) THEN elems
    ELSE LET profile == profiles.list[j]
         IN  profile_loop(row, profiles, j + 1,
                 IF is_active(row_get(row, profile))
                 THEN elems \o marker_elements(row.Position.items[1].n,
                                               row.Position.items[2].n,
                                               profile, profiles)
                 ELSE elems)

\* lines 194-222: the body of the marker loop for one row.  x, y = position
\* raises on anything but a 2-sequence (TypeError on a number or NaN,
\* ValueError on a tuple of another length); x + offset_x raises TypeError
\* on a nested tuple as soon as one profile is active.
marker_row(row, profiles) ==
    LET position == row.Position
    IN  IF ~Truthy(position)
        THEN [raised |-> FALSE, exc |-> "", elems |-> <<>>]
        ELSE IF position.k # "tuple"
        THEN [raised |-> TRUE, exc |-> "TypeError", elems |-> <<>>]
        ELSE IF Len(position.items) # 2
        THEN [raised |-> TRUE, exc |-> "ValueError", elems |-> <<>>]
        ELSE IF /\ \E j \in 1..Len(profiles.list) :
                      is_active(row_get(row, profiles.list[j]))
                /\ \E j \in 1..2 : position.items[j].k # "int"
        THEN [raised |-> TRUE, exc |-> "TypeError", elems |-> <<>>]
        ELSE IF \E j \in 1..2 : position.items[j].k # "int"
        THEN [raised |-> FALSE, exc |-> "", elems |-> <<>>]
        ELSE [raised |-> FALSE, exc |-> "",
              elems |-> profile_loop(row, profiles, 1, <<>>)]

RECURSIVE marker_loop(_, _, _, _)
\* lines 193-222: the rows from index i on
marker_loop(points_df, profiles, i, elems) ==
    IF i > Len(points_df) THEN [raised |-> FALSE, exc |-> "", elems |-> elems]
    ELSE Let1(marker_row(points_df[i], profiles), LAMBDA r :
            IF r.raised THEN [raised |-> TRUE, exc |-> r.exc, elems |-> <<>>]
            ELSE marker_loop(points_df, profiles, i + 1, elems \o r.elems))

(***************************************************************************)
(* The worksheets the run may find.                                        *)
(***************************************************************************)
Rep(c, n) == [i \in 1..n |-> c]

PositionRows ==
    { \* both corners well formed, a label of two lines
      [Label |-> Rep("a", 12) \o <<" ">> \o Rep("b", 12),
       corner1 |-> <<"(", "1", ",", "2", ")">>,
       corner3 |-> <<"(", "2", ",", "1", ")">>, font_size |-> <<"4">>],
      \* the corners the other way round, no font size, markup in the label
      [Label |-> <<"a", "<", "b">>,
       corner1 |-> <<"(", "2", ",", "1", ")">>,
       corner3 |-> <<"(", "1", ",", "2", ")">>, font_size |-> <<>>],
      \* a negative font size
      [Label |-> <<"a", "&">>,
       corner1 |-> <<"(", "1", ",", "2", ")">>,
       corner3 |-> <<"(", "2", ",", "2", ")">>, font_size |-> <<"-", "4">>],
      \* corner 1 is no literal, the font size is zero
      [Label |-> <<"a", "b">>,
       corner1 |-> <<"a">>,
       corner3 |-> <<"(", "2", ",", "1", ")">>, font_size |-> <<"0">>],
      \* corner 1 has three elements, the font size is no number
      [Label |-> <<"a", "b">>,
       corner1 |-> <<"1", ",", "2", ",", "1">>,
       corner3 |-> <<"(", "2", ",", "1", ")">>, font_size |-> <<"a">>],
      \* corner 3 is a parenthesised number
      [Label |-> <<"a", "b">>,
       corner1 |-> <<"(", "1", ",", "2", ")">>,
       corner3 |-> <<"(", "1", ")">>, font_size |-> <<"4">>] }

ProfileIds == {"A", "B", "C"}

PointRows ==
    { \* both profiles active
      [Position |-> <<"(", "1", ",", "2", ")">>, flags |-> [p \in {"A", "B"} |-> 1]],
      \* a flag that is not 1 and a flag that is 1
      [Position |-> <<"(", "2", ",", "1", ")">>, flags |-> [p \in {"A", "B"} |-> IF p = "A" THEN 2 ELSE 1]],
      [Position |-> <<"(", "1", ",", "2">>, flags |-> [p \in {"A", "B"} |-> 1]],
      [Position |-> <<"(", "1", ")">>, flags |-> [p \in {"A", "B"} |-> 1]] }

ProfileName(p) ==
    CASE p = "A" -> <<"A", "l">> [] p = "B" -> <<"B", "<", "o">> [] OTHER -> <<"C", "y">>

ProfileColor(p) ==
    CASE p = "A" -> <<"#", "f", "f", "0", "0", "0", "0">>
      [] p = "B" -> <<"0", "0", "f", "f", "0", "0">>
      [] OTHER -> <<"#", "0", "0", "0", "0", "f", "f">>

ProfileRow(p) == [Profile |-> p, Color |-> ProfileColor(p), Name |-> ProfileName(p)]

ProfileRows ==
    { ProfileRow("A"), ProfileRow("B"),
      \* a colour that is no hex number
      [Profile |-> "B", Color |-> <<"#", "z", "z">>, Name |-> <<"B">>] }

PositionTables == SeqsUpTo(PositionRows, MaxRows)
PointTables == SeqsUpTo(PointRows, MaxPoints)
ProfileTables == SeqsUpTo(ProfileRows, MaxProfileRows)

\* the pixel size of background.jpg
ImageSizes == {<<8, 6>>}

(***************************************************************************)
(* State.  credential, authorized, fetched, sheet, written and html_file   *)
(* are the world outside the process; the rest is the process's memory,    *)
(* gone when it exits.  arg and res are the argument and the result of the *)
(* function under test in the specifications of single functions.          *)
(***************************************************************************)
VARIABLES pc, error, credential, authorized, fetched, sheet, df, img,
          svg_elements, points_df, profiles, written, html_file, arg, res

vars == <<pc, error, credential, authorized, fetched, sheet, df, img,
          svg_elements, points_df, profiles, written, html_file, arg, res>>

world == <<credential, authorized, fetched, sheet, written, html_file>>
memory == <<df, img, svg_elements, points_df, profiles>>
call == <<arg, res>>

NoError == [exc |-> "", at |-> ""]
NoSheet == [position |-> <<>>, points |-> <<>>, Profiles |-> <<>>]

MemoryIdle ==
    /\ df = <<>>
    /\ img = <<0, 0>>
    /\ svg_elements = <<>>
    /\ points_df = <<>>
    /\ profiles = NoProfiles

WorldIdle ==
    /\ authorized = FALSE
    /\ fetched = <<>>
    /\ sheet = NoSheet
    /\ written = <<>>
    /\ html_file = <<>>

Init ==
    /\ pc = "start"
    /\ error = NoError
    /\ credential \in {"unset", "empty", "set"}
    /\ WorldIdle
    /\ MemoryIdle
    /\ arg = <<>>
    /\ res = <<>>

\* an unhandled exception: the process exits, its memory is gone
Crash(exc) ==
    /\ pc' = "failed"
    /\ error' = [exc |-> exc, at |-> pc]
    /\ df' = <<>>
    /\ img' = <<0, 0>>
    /\ svg_elements' = <<>>
    /\ points_df' = <<>>
    /\ profiles' = NoProfiles
    /\ UNCHANGED call

\* only an unset variable counts, an empty one goes through
credential_missing_unset_only == credential = "unset"

\* line 60: not service_account_json
credential_missing == credential \in {"unset", "empty"}

\* lines 59-61
CheckCredential ==
    /\ pc = "start"
    /\ IF credential_missing
       THEN Crash("EnvironmentError")
       ELSE /\ pc' = "authorize"
            /\ UNCHANGED <<error, memory, call>>
    /\ UNCHANGED world

\* lines 62-67
Authorize ==
    /\ pc = "authorize"
    /\ authorized' = TRUE
    /\ pc' = "fetch_position"
    /\ UNCHANGED <<error, credential, fetched, sheet, written, html_file,
                   memory, call>>

\* lines 62-67: the credential is no JSON, no key file, or is refused
AuthorizeFails ==
    /\ pc = "authorize"
    /\ Crash("AuthError")
    /\ UNCHANGED world

\* lines 70-82
FetchPosition ==
    /\ pc = "fetch_position"
    /\ \E t \in PositionTables :
        /\ sheet' = [sheet EXCEPT !.position = t]
        /\ fetched' = Append(fetched, "position")
        /\ \E r \in {normalize_position(t)} :
               IF r.raised THEN Crash(r.exc)
               ELSE /\ df' = r.df
                    /\ pc' = "image"
                    /\ UNCHANGED <<error, img, svg_elements, points_df,
                                   profiles, call>>
    /\ UNCHANGED <<credential, authorized, written, html_file>>

\* lines 71-73: the spreadsheet or the worksheet cannot be fetched
FetchPositionFails ==
    /\ pc = "fetch_position"
    /\ Crash("APIError")
    /\ UNCHANGED world

\* lines 85-98
SaveImage ==
    /\ pc = "image"
    /\ \E size \in ImageSizes : img' = size
    /\ written' = Append(written, "output_image.png")
    /\ pc' = "rectangles"
    /\ UNCHANGED <<error, credential, authorized, fetched, sheet, html_file,
                   df, svg_elements, points_df, profiles, call>>

\* lines 86-95: background.jpg cannot be opened, or docs/ cannot be written
SaveImageFails ==
    /\ pc = "image"
    /\ Crash("OSError")
    /\ UNCHANGED world

\* lines 100-145
DrawRectangles ==
    /\ pc = "rectangles"
    /\ \E r \in {rect_loop(df, 1, <<>>)} :
           IF r.raised THEN Crash(r.exc)
           ELSE /\ svg_elements' = r.elems
                /\ pc' = "fetch_points"
                /\ UNCHANGED <<error, df, img, points_df, profiles, call>>
    /\ UNCHANGED world

\* lines 150-157
FetchPoints ==
    /\ pc = "fetch_points"
    /\ \E t \in PointTables :
        /\ sheet' = [sheet EXCEPT !.points = t]
        /\ fetched' = Append(fetched, "points")
        /\ \E r \in {normalize_points(t)} :
               IF r.raised THEN Crash(r.exc)
               ELSE /\ points_df' = r.df
                    /\ pc' = "fetch_profiles"
                    /\ UNCHANGED <<error, df, img, svg_elements, profiles,
                                   call>>
    /\ UNCHANGED <<credential, authorized, written, html_file>>

FetchPointsFails ==
    /\ pc = "fetch_points"
    /\ Crash("APIError")
    /\ UNCHANGED world

\* lines 160-190
FetchProfiles ==
    /\ pc = "fetch_profiles"
    /\ \E t \in ProfileTables :
        /\ sheet' = [sheet EXCEPT !.Profiles = t]
        /\ fetched' = Append(fetched, "Profiles")
        /\ \E r \in {build_profiles(t)} :
               IF r.raised THEN Crash(r.exc)
               ELSE /\ profiles' = r.profiles
                    /\ pc' = "markers"
                    /\ UNCHANGED <<error, df, img, svg_elements, points_df,
                                   call>>
    /\ UNCHANGED <<credential, authorized, written, html_file>>

FetchProfilesFails ==
    /\ pc = "fetch_profiles"
    /\ Crash("APIError")
    /\ UNCHANGED world

\* the marker loop with its exceptions swallowed
DrawMarkers_swallow ==
    /\ pc = "markers"
    /\ \E r \in {marker_loop(points_df, profiles, 1, <<>>)} :
           /\ svg_elements' = svg_elements \o r.elems
           /\ pc' = "write_html"
           /\ UNCHANGED <<error, df, img, points_df, profiles, call>>
    /\ UNCHANGED world

\* lines 193-222
DrawMarkers ==
    /\ pc = "markers"
    /\ \E r \in {marker_loop(points_df, profiles, 1, <<>>)} :
           IF r.raised THEN Crash(r.exc)
           ELSE /\ svg_elements' = svg_elements \o r.elems
                /\ pc' = "write_html"
                /\ UNCHANGED <<error, df, img, points_df, profiles, call>>
    /\ UNCHANGED world

\* lines 104-106 and 227-243: the svg element with the background image
\* first and the accumulated elements after it, in the html template
html_code ==
    [width |-> img[1], height |-> img[2],
     body |-> << [tag |-> "image", href |-> "output_image.png", x |-> 0,
                  y |-> 0, width |-> img[1], height |-> img[2]] >>
              \o svg_elements]

\* lines 246-252
WriteHtml ==
    /\ pc = "write_html"
    /\ html_file' = <<html_code>>
    /\ written' = Append(written, "index.html")
    /\ pc' = "write_nojekyll"
    /\ UNCHANGED <<error, credential, authorized, fetched, sheet, memory,
                   call>>

WriteHtmlFails ==
    /\ pc = "write_html"
    /\ Crash("OSError")
    /\ UNCHANGED world

\* lines 255-259
WriteNojekyll ==
    /\ pc = "write_nojekyll"
    /\ written' = Append(written, ".nojekyll")
    /\ pc' = "done"
    /\ UNCHANGED <<error, credential, authorized, fetched, sheet, html_file,
                   memory, call>>

WriteNojekyllFails ==
    /\ pc = "write_nojekyll"
    /\ Crash("OSError")
    /\ UNCHANGED world

Next ==
    \/ CheckCredential
    \/ Authorize
    \/ AuthorizeFails
    \/ FetchPosition
    \/ FetchPositionFails
    \/ SaveImage
    \/ SaveImageFails
    \/ DrawRectangles
    \/ FetchPoints
    \/ FetchPointsFails
    \/ FetchProfiles
    \/ FetchProfilesFails
    \/ DrawMarkers
    \/ WriteHtml
    \/ WriteHtmlFails
    \/ WriteNojekyll
    \/ WriteNojekyllFails

Spec == Init /\ [][Next]_vars

(***************************************************************************)
(* Specifications of single functions: Init draws the argument, the one    *)
(* action applies the function.                                            *)
(***************************************************************************)
TupleChars == {"(", ")", ",", "1", "2", "a"}
TupleTexts == SeqsUpTo(TupleChars, MaxTupleLen)

InitCall(args) ==
    /\ pc = "call"
    /\ error = NoError
    /\ credential = "unset"
    /\ WorldIdle
    /\ MemoryIdle
    /\ arg \in args
    /\ res = <<>>

Return(value) ==
    /\ pc = "call"
    /\ res' = <<value>>
    /\ pc' = "returned"
    /\ UNCHANGED <<error, world, memory, arg>>

InitParse == InitCall(TupleTexts)

\* lines 13-17
CallParseTupleString == Return(parse_tuple_string(arg))

SpecParse == InitParse /\ [][CallParseTupleString]_vars

\* a label is up to MaxRuns runs, each of letters or of blanks
Runs == {Rep("a", n) : n \in {1, 15, 20, 21, 25}} \cup {Rep(" ", n) : n \in {1, 2}}
WrapLabels == {FlattenSeq(rs) : rs \in SeqsUpTo(Runs, MaxRuns)}

InitWrap == InitCall(WrapLabels)

\* lines 33-36
CallFill == Return(split_newline(fill(arg, max_line_length)))

SpecWrap == InitWrap /\ [][CallFill]_vars

MarkerPositions ==
    {<<"(", "1", ",", "2", ")">>, <<"(", "2", ",", "1", ")">>, <<"a">>}
MarkerFlags ==
    [ProfileIds -> {0, 1, 2}] \cup [{"A", "B"} -> {0, 1, 2}]
MarkerProfiles == SeqsUpTo({ProfileRow(p) : p \in ProfileIds}, MaxProfiles)
MarkerArgs ==
    [Position : MarkerPositions, flags : MarkerFlags,
     profiles_data : MarkerProfiles]

InitMarkers == InitCall(MarkerArgs)

\* lines 157-222 for a 'points' worksheet of one row
CallMarkers ==
    Return(marker_loop(
        normalize_points(<<[Position |-> arg.Position,
                            flags |-> arg.flags]>>).df,
        build_profiles(arg.profiles_data).profiles, 1, <<>>))

SpecMarkers == InitMarkers /\ [][CallMarkers]_vars

(***************************************************************************)
(* What the specification calls a well-formed coordinate cell: the text of *)
(* a pair of integers, "(" digits "," digits ")".                          *)
(***************************************************************************)
WellFormedPair(t) ==
    /\ Len(t) >= 5
    /\ t[1] = "("
    /\ t[Len(t)] = ")"
    /\ \E c \in 3..(Len(t) - 2) :
        /\ t[c] = ","
        /\ \A j \in (2..(Len(t) - 1)) \ {c} : t[j] \in Digits

CommaOf(t) == CHOOSE c \in 3..(Len(t) - 2) : t[c] = ","

\* the pair a well-formed cell denotes
PairOf(t) ==
    <<DecimalOf(t, 2, CommaOf(t) - 1), DecimalOf(t, CommaOf(t) + 1, Len(t) - 1)>>

IsIntPair(v) ==
    /\ v.k = "tuple"
    /\ Len(v.items) = 2
    /\ v.items[1].k = "int"
    /\ v.items[2].k = "int"

ValidRecord(row) == WellFormedPair(row.corner1) /\ WellFormedPair(row.corner3)

RECURSIVE SelectSeq2(_, _, _)
\* the members of seq that satisfy Test, in order, from index i on
SelectSeq2(seq, Test(_), i) ==
    IF i > Len(seq) THEN <<>>
    ELSE (IF Test(seq[i]) THEN <<seq[i]>> ELSE <<>>) \o SelectSeq2(seq, Test, i + 1)

RectsOf(elems) == SelectSeq2(elems, LAMBDA e : e.tag = "rect", 1)

HtmlWritten == html_file # <<>>

(***************************************************************************)
(* C1.  A rectangle record one of whose two corners (Corner Position 1,    *)
(* Corner Position 3) is unparseable contributes no rect and no text       *)
(* element, and the run does not abort over it: the rectangle loop never   *)
(* raises, and what it leaves is the two elements of each record whose     *)
(* corners are both well formed.                                           *)
(***************************************************************************)
C1_SkipUnparseableCorner ==
    LET rows == sheet.position
        unparseable == {i \in 1..Len(rows) : ~ValidRecord(rows[i])}
    IN  /\ unparseable # {} => ~(pc = "failed" /\ error.at = "rectangles")
        /\ pc = "fetch_points" =>
              Len(svg_elements) = 2 * (Len(rows) - Cardinality(unparseable))

(***************************************************************************)
(* C2.  parse_tuple_string returns a pair of two integers or None and      *)
(* nothing else: exactly the pair for a well-formed two-integer tuple      *)
(* text, None for every other text.                                        *)
(***************************************************************************)
C2_PairOrAbsent ==
    pc = "returned" =>
        /\ res[1] = None \/ IsIntPair(res[1])
        /\ IF WellFormedPair(arg)
           THEN res[1] = TupV(<<IntV(PairOf(arg)[1]), IntV(PairOf(arg)[2])>>)
           ELSE res[1] = None

(***************************************************************************)
(* C3.  For a point with a parseable position and the profile list of      *)
(* length n, the loop emits, for each profile whose flag is exactly 1 and  *)
(* for no other, one circle followed by one label with the profile's name, *)
(* in list order, the circle of the profile at index i centred at the      *)
(* point plus offset i of the n-way radial table.                          *)
(***************************************************************************)
FlagOf(flags, p) == IF p \in DOMAIN flags THEN flags[p] ELSE 0

RECURSIVE ExpectedMarkers(_, _, _, _)
\* <<cx, cy, name>> of the markers the claim expects, from list index i on
ExpectedMarkers(xy, flags, rows, i) ==
    IF i > Len(rows) THEN <<>>
    ELSE (IF FlagOf(flags, rows[i].Profile) = 1
          THEN << <<1000 * xy[1] + generate_offsets(Len(rows), 10)[i][1],
                    1000 * xy[2] + generate_offsets(Len(rows), 10)[i][2],
                    rows[i].Name>> >>
          ELSE <<>>) \o ExpectedMarkers(xy, flags, rows, i + 1)

\* <<cx, cy, name>> of the markers emitted: each circle and the text after it
EmittedMarkers(elems) ==
    [k \in 1..(Len(elems) \div 2) |->
        <<elems[2 * k - 1].cx, elems[2 * k - 1].cy, elems[2 * k].body>>]

MarkersAsClaimed ==
    /\ ~res[1].raised
    /\ Len(res[1].elems) % 2 = 0
    /\ \A k \in 1..Len(res[1].elems) :
          res[1].elems[k].tag = IF k % 2 = 1 THEN "circle" ELSE "text"
    /\ EmittedMarkers(res[1].elems)
          = ExpectedMarkers(PairOf(arg.Position), arg.flags, arg.profiles_data, 1)

UniqueIds(rows) ==
    \A i, j \in 1..Len(rows) : rows[i].Profile = rows[j].Profile => i = j

\* C3 as stated: for every profile list
C3_MarkersAnyList ==
    pc = "returned" /\ WellFormedPair(arg.Position) => MarkersAsClaimed

\* C3 amended: for every profile list whose ids are unique, one circle and
\* one label per profile flagged exactly 1, at offset i of the n-way table
C3_MarkersUniqueIds ==
    pc = "returned" /\ WellFormedPair(arg.Position) /\ UniqueIds(arg.profiles_data)
        => MarkersAsClaimed

\* flags {A:1, B:0, C:1} over [A, B, C]: two markers, at offsets 0 and 2 of
\* the 3-way split
C3_Witness ==
    /\ pc = "returned"
    /\ arg.Position = <<"(", "1", ",", "2", ")">>
    /\ [i \in 1..Len(arg.profiles_data) |-> arg.profiles_data[i].Profile]
          = <<"A", "B", "C">>
    /\ DOMAIN arg.flags = ProfileIds
    /\ arg.flags["A"] = 1 /\ arg.flags["B"] = 0 /\ arg.flags["C"] = 1
    /\ Len(res[1].elems) = 4
    /\ res[1].elems[1].cx = 1000 + 20000
    /\ res[1].elems[3].cx = 1000 - 10000
    /\ res[1].elems[3].cy = 2000 - 17320

(***************************************************************************)
(* C4.  In the document written, no text put into a tspan or a text        *)
(* element holds a literal '<', '>' or '&': labels and profile names are   *)
(* escaped.                                                                *)
(***************************************************************************)
MarkupChars == {"<", ">", "&"}

NoMarkup(text) == \A i \in 1..Len(text) : text[i] \notin MarkupChars

C4_TextEscaped ==
    HtmlWritten =>
        \A k \in 1..Len(html_file[1].body) :
            LET e == html_file[1].body[k]
            IN  /\ "body" \in DOMAIN e => NoMarkup(e.body)
                /\ "tspans" \in DOMAIN e =>
                      \A j \in 1..Len(e.tspans) : NoMarkup(e.tspans[j].body)

(***************************************************************************)
(* C5.  The font size of every rectangle label is a positive integer: the  *)
(* value of the record's cell when that is a positive integer, the         *)
(* fallback 40 when the cell is missing, non-numeric, zero or negative.    *)
(***************************************************************************)
FontAsClaimed(cell) ==
    LET r == IntOfText(cell)
    IN  IF ~r.raised /\ r.v > 0 THEN r.v ELSE 40

C5_FontPositive ==
    pc = "fetch_points" =>
        \A k \in 1..Len(svg_elements) :
            LET e == svg_elements[k]
            IN  "tspans" \in DOMAIN e =>
                  /\ e.font_size.k \in {"int", "float"}
                  /\ e.font_size.n > 0
                  /\ \E i \in 1..Len(sheet.position) :
                        e.font_size.n = FontAsClaimed(sheet.position[i].font_size)

(***************************************************************************)
(* C6.  Wrapping at 20 characters.                                         *)
(***************************************************************************)
RECURSIVE WordsOf(_, _)
\* the words of a text (its maximal runs of non-blanks) from index i on
WordsOf(text, i) ==
    IF i > Len(text) THEN <<>>
    ELSE IF text[i] = " " THEN WordsOf(text, i + 1)
    ELSE LET j == RunEnd(text, i)
         IN  <<SubSeq(text, i, j - 1)>> \o WordsOf(text, j)

RECURSIVE WordsOfLines(_)
WordsOfLines(lines) ==
    IF lines = <<>> THEN <<>>
    ELSE WordsOf(Head(lines), 1) \o WordsOfLines(Tail(lines))

\* more than one word on a line: the line has a blank
HasBlank(line) == \E i \in 1..Len(line) : line[i] = " "

DrawnRows == SelectSeq2(df, LAMBDA row : Truthy(row.corner1) /\ Truthy(row.corner3), 1)

C7_BoxNormalised ==
    pc = "fetch_points" =>
        /\ Len(RectsOf(svg_elements)) = Len(DrawnRows)
        /\ \A k \in 1..Len(DrawnRows) :
            LET e == RectsOf(svg_elements)[k]
                a == DrawnRows[k].corner1.items
                b == DrawnRows[k].corner3.items
                swapped == bounding_box(DrawnRows[k].corner3, DrawnRows[k].corner1)
            IN  /\ e.width >= 0
                /\ e.height >= 0
                /\ e.x <= a[1].n /\ e.x <= b[1].n
                /\ e.y <= a[2].n /\ e.y <= b[2].n
                /\ e.x + e.width >= a[1].n /\ e.x + e.width >= b[1].n
                /\ e.y + e.height >= a[2].n /\ e.y + e.height >= b[2].n
                /\ e.x = swapped.x0 /\ e.y = swapped.y0
                /\ e.x + e.width = swapped.x1 /\ e.y + e.height = swapped.y1

\* a record whose corner 1 lies right of and above corner 3 has been drawn
C7_Witness ==
    /\ pc = "fetch_points"
    /\ \E k \in 1..Len(DrawnRows) :
        /\ DrawnRows[k].corner1.items[1].n > DrawnRows[k].corner3.items[1].n
        /\ DrawnRows[k].corner1.items[2].n < DrawnRows[k].corner3.items[2].n
        /\ RectsOf(svg_elements)[k].width = 1

(***************************************************************************)
(* C8.  With the credential missing the run fails with the configuration   *)
(* error before anything else: nothing is authorized, no worksheet is      *)
(* fetched and nothing is written.                                         *)
(***************************************************************************)
CredentialAbsent == credential \in {"unset", "empty"}

C8_NoFetchWithoutCredential ==
    CredentialAbsent =>
        /\ pc \in {"start", "failed"}
        /\ pc = "failed" => error = [exc |-> "EnvironmentError", at |-> "start"]
        /\ ~authorized
        /\ fetched = <<>>
        /\ written = <<>>
        /\ ~HtmlWritten

C8_Witness ==
    /\ credential = "empty"
    /\ pc = "failed"
    /\ error.exc = "EnvironmentError"

(***************************************************************************)
(* C9.  The body of a written document is the background image, then for   *)
(* each valid rectangle record, in record order, its rect and its text,    *)
(* then for each active (point, profile) pair, in point order and profile  *)
(* order, its circle and its text, and nothing else.                       *)
(***************************************************************************)
RECURSIVE ExpectedBoxes(_, _)
\* <<x, y, width, height>> of the valid records from index i on
ExpectedBoxes(rows, i) ==
    IF i > Len(rows) THEN <<>>
    ELSE (IF ValidRecord(rows[i])
          THEN LET a == PairOf(rows[i].corner1)
                   b == PairOf(rows[i].corner3)
               IN  << <<Min(a[1], b[1]), Min(a[2], b[2]),
                        Max(a[1], b[1]) - Min(a[1], b[1]),
                        Max(a[2], b[2]) - Min(a[2], b[2])>> >>
          ELSE <<>>) \o ExpectedBoxes(rows, i + 1)

RECURSIVE ExpectedNamesOfPoint(_, _, _)
ExpectedNamesOfPoint(point, rows, j) ==
    IF j > Len(rows) THEN <<>>
    ELSE (IF FlagOf(point.flags, rows[j].Profile) = 1
          THEN <<rows[j].Name>> ELSE <<>>)
         \o ExpectedNamesOfPoint(point, rows, j + 1)

RECURSIVE ExpectedNames(_, _, _)
\* the names of the active (point, profile) pairs from point index i on
ExpectedNames(points, rows, i) ==
    IF i > Len(points) THEN <<>>
    ELSE (IF WellFormedPair(points[i].Position)
          THEN ExpectedNamesOfPoint(points[i], rows, 1) ELSE <<>>)
         \o ExpectedNames(points, rows, i + 1)

C9_DocumentOrder ==
    HtmlWritten =>
        LET body == html_file[1].body
            boxes == ExpectedBoxes(sheet.position, 1)
            names == ExpectedNames(sheet.points, sheet.Profiles, 1)
        IN  /\ Len(body) = 1 + 2 * Len(boxes) + 2 * Len(names)
            /\ body[1].tag = "image"
            /\ \A k \in 1..Len(boxes) :
                /\ body[2 * k].tag = "rect"
                /\ <<body[2 * k].x, body[2 * k].y, body[2 * k].width,
                     body[2 * k].height>> = boxes[k]
                /\ body[2 * k + 1].tag = "text"
                /\ "tspans" \in DOMAIN body[2 * k + 1]
            /\ \A k \in 1..Len(names) :
                /\ body[2 * Len(boxes) + 2 * k].tag = "circle"
                /\ body[2 * Len(boxes) + 2 * k + 1].tag = "text"
                /\ "body" \in DOMAIN body[2 * Len(boxes) + 2 * k + 1]
                /\ body[2 * Len(boxes) + 2 * k + 1].body = names[k]

(***************************************************************************)
(* C10.  index.html is written only after the three worksheets have been   *)
(* fetched and every record has been processed without an exception, and  *)
(* .nojekyll only after index.html; a run that aborts before writes        *)
(* neither, though output_image.png may be there already.                  *)
(***************************************************************************)
Has(seq, x) == \E i \in 1..Len(seq) : seq[i] = x

C10_WriteOrder ==
    /\ Has(written, "index.html") <=> HtmlWritten
    /\ HtmlWritten =>
        /\ fetched = <<"position", "points", "Profiles">>
        /\ pc \in {"write_nojekyll", "done", "failed"}
        /\ pc = "failed" => error.at = "write_nojekyll"
        /\ ~normalize_position(sheet.position).raised
        /\ ~rect_loop(normalize_position(sheet.position).df, 1, <<>>).raised
        /\ ~normalize_points(sheet.points).raised
        /\ ~build_profiles(sheet.Profiles).raised
        /\ ~marker_loop(normalize_points(sheet.points).df,
                        build_profiles(sheet.Profiles).profiles, 1, <<>>).raised
    /\ Has(written, ".nojekyll") =>
        /\ pc = "done"
        /\ written = <<"output_image.png", "index.html", ".nojekyll">>
    /\ pc = "failed" /\ error.at # "write_nojekyll" =>
        /\ ~HtmlWritten
        /\ ~Has(written, ".nojekyll")
    /\ pc = "done" => Has(written, ".nojekyll")

\* a run that aborted in the marker loop: the image is there, no document
C10_Witness ==
    /\ pc = "failed"
    /\ error.at = "markers"
    /\ written = <<"output_image.png">>
    /\ ~HtmlWritten

=============================================================================
